---- MODULE Spec2Model ----
(***************************************************************************)
(* nubank-ofx-preview: the date filter (stuff.js), the charge normalizer   *)
(* and OFX renderer, and the export pipeline (main.js).                    *)
(*                                                                         *)
(* Time is counted in ticks; a calendar day has DayLen = 2 * HalfDay ticks *)
(* and day d starts (local midnight) at tick d * DayLen.                   *)
(***************************************************************************)
EXTENDS Integers, Sequences, FiniteSets, TLC

\* ------------------------------------------------------------------ bounds
MaxDay == 3
HalfDay == 2
MaxElapsed == 2

DayLen == 2 * HalfDay
Days == 0 .. MaxDay
Instants == 0 .. ((MaxDay + 1) * DayLen - 1)

\* ------------------------------------------------------------ date strings
\* 'YYYY-MM-DD' text of day d (the days of the model are 2018-05-01, ...).
IsoText(d) ==
    "2018-05-" \o (IF d + 1 < 10 THEN "0" \o ToString(d + 1) ELSE ToString(d + 1))

\* The date strings of the model's days, by day.
DayTexts == [d \in Days |-> IsoText(d)]

IsoTexts == {DayTexts[d] : d \in Days}

\* A string that neither moment nor chrono can parse.
Garbage == {"lalala"}

\* post_date values of line items, and the dt argument of the filter.
DateTexts == IsoTexts \cup Garbage

\* --since / --until values.
DateSpecs == {"forever", "open", "now", "today"} \cup IsoTexts \cup Garbage

BillStates == {"open", "closed"}

\* ---------------------------------------------------------------- moments
\* A moment object: valid with an instant, or invalid.
InvalidMoment == [valid |-> FALSE, t |-> 0]
At(t) == [valid |-> TRUE, t |-> t]

\* moment(text): an ISO calendar date parses to local midnight of that day;
\* anything else falls back to new Date(text), which is an Invalid Date.
Moment(text) ==
    IF text \in IsoTexts
    THEN At((CHOOSE d \in Days : DayTexts[d] = text) * DayLen)
    ELSE InvalidMoment

\* chrono.parseDate(text) at reference instant `now`, wrapped in moment():
\* 'now' is the reference instant, 'today' is the reference day with the
\* implied hour 12; no match gives null and moment(null) is invalid.
ChronoParseDate(text, now) ==
    IF text = "now" THEN At(now)
    ELSE IF text = "today" THEN At((now \div DayLen) * DayLen + HalfDay)
    ELSE InvalidMoment

isSameOrAfter(a, b) == a.valid /\ b.valid /\ a.t >= b.t
isSameOrBefore(a, b) == a.valid /\ b.valid /\ a.t =< b.t
isBefore(a, b) == a.valid /\ b.valid /\ a.t < b.t

\* parseDate(text): strict parse first, then the date-phrase parser.  It
\* never throws: an unparseable text yields an invalid moment.
parseDate(text, now) ==
    IF Moment(text).valid THEN Moment(text) ELSE ChronoParseDate(text, now)

\* -------------------------------------------------------------- boundaries
\* The closures of makeLowerDateBoundary / makeUpperDateBoundary as records:
\* kind is the branch taken, at is the captured moment.
NoBoundary == [kind |-> "none", at |-> InvalidMoment]

makeLowerDateBoundary(spec, now) ==
    IF spec = "forever" THEN [kind |-> "forever", at |-> InvalidMoment]
    ELSE IF spec = "open" THEN [kind |-> "open", at |-> parseDate("today", now)]
    ELSE [kind |-> "date", at |-> parseDate(spec, now)]

\* Mutant: 'forever' is not special-cased and goes to parseDate.
makeUpperDateBoundary_noForever(spec, now) ==
    IF spec = "open" THEN [kind |-> "open", at |-> parseDate("today", now)]
    ELSE [kind |-> "date", at |-> parseDate(spec, now)]

makeUpperDateBoundary(spec, now) ==
    IF spec = "forever" THEN [kind |-> "forever", at |-> InvalidMoment]
    ELSE IF spec = "open" THEN [kind |-> "open", at |-> parseDate("today", now)]
    ELSE [kind |-> "date", at |-> parseDate(spec, now)]

\* Mutant: the concrete lower boundary excludes its own date (isAfter).
lowerBoundary_exclusive(b, dt, billState) ==
    CASE b.kind = "forever" -> TRUE
      [] b.kind = "open" -> isSameOrAfter(Moment(dt), b.at) \/ billState = "open"
      [] b.kind = "date" -> Moment(dt).valid /\ b.at.valid /\ Moment(dt).t > b.at.t
      [] OTHER -> FALSE

\* Mutant: the 'open' lower boundary compares the wrong way round.
lowerBoundary_openBefore(b, dt, billState) ==
    CASE b.kind = "forever" -> TRUE
      [] b.kind = "open" -> isSameOrBefore(Moment(dt), b.at) \/ billState = "open"
      [] b.kind = "date" -> isSameOrAfter(Moment(dt), b.at)
      [] OTHER -> FALSE

\* Calling the closure returned by makeLowerDateBoundary.
lowerBoundary(b, dt, billState) ==
    CASE b.kind = "forever" -> TRUE
      [] b.kind = "open" -> isSameOrAfter(Moment(dt), b.at) \/ billState = "open"
      [] b.kind = "date" -> isSameOrAfter(Moment(dt), b.at)
      [] OTHER -> FALSE

\* Calling the closure returned by makeUpperDateBoundary.
upperBoundary(b, dt, billState) ==
    CASE b.kind = "forever" -> TRUE
      [] b.kind = "open" -> isSameOrBefore(Moment(dt), b.at) \/ billState = "open"
      [] b.kind = "date" -> isBefore(Moment(dt), b.at)
      [] OTHER -> FALSE

NoFilter == [lower |-> NoBoundary, upper |-> NoBoundary]

createDateFilter(s, u, now) ==
    [lower |-> makeLowerDateBoundary(s, now), upper |-> makeUpperDateBoundary(u, now)]

\* Calling the closure returned by createDateFilter.
ApplyFilter(f, dt, billState) ==
    lowerBoundary(f.lower, dt, billState) /\ upperBoundary(f.upper, dt, billState)

\* Does createDateFilter(s, u) call parseDate at all?
CallsParseDate(s, u) == s # "forever" \/ u # "forever"

\* ----------------------------------------------------------------- numbers
\* A JavaScript number that is a multiple of 1/100 is kept as its count of
\* hundredths; a string of digits is a sequence of one-character strings.
DigitChars == <<"0", "1", "2", "3", "4", "5", "6", "7", "8", "9">>
Digit(d) == DigitChars[d + 1]
IsDigit(c) == \E d \in 0 .. 9 : Digit(d) = c
DigitVal(c) == CHOOSE d \in 0 .. 9 : Digit(d) = c
Abs(n) == IF n < 0 THEN -n ELSE n

RECURSIVE NatChars(_)
NatChars(n) == IF n < 10 THEN <<Digit(n)>> ELSE NatChars(n \div 10) \o <<Digit(n % 10)>>

RECURSIVE NatVal(_)
NatVal(cs) == IF cs = <<>> THEN 0 ELSE NatVal(SubSeq(cs, 1, Len(cs) - 1)) * 10 + DigitVal(cs[Len(cs)])

\* Number.prototype.toFixed(2) of the number h / 100.
toFixed2(h) ==
    (IF h < 0 THEN <<"-">> ELSE <<>>)
        \o NatChars(Abs(h) \div 100)
        \o <<".">>
        \o <<Digit((Abs(h) \div 10) % 10), Digit(Abs(h) % 10)>>

\* String(x) for the number x = h / 100: the shortest decimal, so trailing
\* zeros of the fraction and an empty fraction are dropped; -0 prints "0".
NumberToString(h) ==
    (IF h < 0 THEN <<"-">> ELSE <<>>)
        \o NatChars(Abs(h) \div 100)
        \o (IF Abs(h) % 100 = 0 THEN <<>>
            ELSE IF Abs(h) % 10 = 0 THEN <<".", Digit((Abs(h) \div 10) % 10)>>
            ELSE <<".", Digit((Abs(h) \div 10) % 10), Digit(Abs(h) % 10)>>)

\* Number(s) for a decimal string with at most two fraction digits, in
\* hundredths.
StringToNumber(cs) ==
    LET neg == cs # <<>> /\ cs[1] = "-"
        body == IF neg THEN Tail(cs) ELSE cs
        dots == {i \in 1 .. Len(body) : body[i] = "."}
        dot == IF dots = {} THEN Len(body) + 1 ELSE CHOOSE i \in dots : TRUE
        int == SubSeq(body, 1, dot - 1)
        frac == SubSeq(body, dot + 1, Len(body))
        f == IF Len(frac) = 0 THEN 0
             ELSE IF Len(frac) = 1 THEN NatVal(frac) * 10
             ELSE NatVal(frac)
        mag == NatVal(int) * 100 + f
    IN IF neg THEN -mag ELSE mag

\* ------------------------------------------------------------------ values
\* The values the amount of a line item can hold after response.json(): a
\* number of minor units, null or a string; reading a property the item
\* does not have yields undefined.
Number(n) == [type |-> "number", value |-> n]
Null == [type |-> "null"]
Str(cs) == [type |-> "string", value |-> cs]
Undefined == [type |-> "undefined"]

NaNChars == <<"N", "a", "N">>

\* Does Number(s) of the string yield a number? The empty string and a
\* decimal literal do; any other text is NaN.
IsNumeric(cs) ==
    LET body == IF cs # <<>> /\ cs[1] = "-" THEN Tail(cs) ELSE cs IN
    \/ cs = <<>>
    \/ /\ body # <<>>
       /\ \A i \in 1 .. Len(body) : IsDigit(body[i]) \/ body[i] = "."
       /\ Cardinality({i \in 1 .. Len(body) : body[i] = "."}) =< 1
       /\ \E i \in 1 .. Len(body) : IsDigit(body[i])

\* const {amount} = itemData
AmountOf(itemData) == IF "amount" \in DOMAIN itemData THEN itemData.amount ELSE Undefined

\* amount / 100 after the conversion of the operand to a number: NaN, or
\* the quotient in hundredths. undefined converts to NaN, null and '' to 0,
\* a string of digits to its value, any other text to NaN.
DividedBy100(v) ==
    IF v.type = "number" THEN [nan |-> FALSE, h |-> v.value]
    ELSE IF v.type = "null" THEN [nan |-> FALSE, h |-> 0]
    ELSE IF v.type = "string" /\ IsNumeric(v.value)
         THEN [nan |-> FALSE, h |-> StringToNumber(v.value) \div 100]
    ELSE [nan |-> TRUE]

\* A normalizer that takes an amount that is not a number for 0.
AmountToFixed2_zero(v) ==
    LET q == DividedBy100(v) IN IF q.nan THEN toFixed2(0) ELSE toFixed2(q.h)

\* (amount / 100).toFixed(2): NaN prints as 'NaN'.
AmountToFixed2(v) ==
    LET q == DividedBy100(v) IN IF q.nan THEN NaNChars ELSE toFixed2(q.h)

\* ----------------------------------------------------------------- charges
\* Mutant: the normalizer negates the amount (as an OFX amount).
asCharge_negated(itemData, billState, timezoneOffset) ==
    [id |-> itemData.id,
     title |-> itemData.title,
     post_date |-> itemData.post_date,
     date |-> [date |-> itemData.post_date, timezoneOffset |-> timezoneOffset],
     amount |-> toFixed2(-itemData.amount.value),
     billState |-> billState]

\* asCharge(itemData, billState, timezoneOffset): the raw line item with
\* date, amount and billState added or overwritten.
asCharge(itemData, billState, timezoneOffset) ==
    [id |-> itemData.id,
     title |-> itemData.title,
     post_date |-> itemData.post_date,
     date |-> [date |-> itemData.post_date, timezoneOffset |-> timezoneOffset],
     amount |-> AmountToFixed2(AmountOf(itemData)),
     billState |-> billState]

\* `${amount * -1}`: the amount string converted to a number, negated and
\* printed as a number; 'NaN' converts to NaN, which prints as 'NaN'.
TrnAmt(amount) ==
    IF IsNumeric(amount) THEN NumberToString(-StringToNumber(amount)) ELSE NaNChars

\* moment(date).format('YYYYMMDD'): the local calendar day of the moment as
\* eight digits; an invalid moment formats as 'Invalid date'.
FormatYMD(m) ==
    IF m.valid
    THEN <<"2", "0", "1", "8", "0", "5">>
             \o <<Digit(((m.t \div DayLen) + 1) \div 10), Digit(((m.t \div DayLen) + 1) % 10)>>
    ELSE <<"I", "n", "v", "a", "l", "i", "d", " ", "d", "a", "t", "e">>

\* An offset printed with the sign getTimezoneOffset() gave it.
GmtHours_unsigned(tz) == NumberToString((tz * 5) \div 3)

\* `${timezoneOffset / 60 * -1}`: the offset in hours, negated, printed as a
\* number (offsets are multiples of 15 minutes, so hundredths are exact).
GmtHours(tz) == NumberToString(-((tz * 5) \div 3))

\* `${moment(date).format('YYYYMMDD')}000000[${timezoneOffset / 60 * -1}:GMT]`
DtPosted(date) ==
    FormatYMD(Moment(date.date))
        \o <<"0", "0", "0", "0", "0", "0", "[">>
        \o GmtHours(date.timezoneOffset)
        \o <<":", "G", "M", "T", "]">>

\* A renderer that tells payments from purchases by the sign of the amount.
ofxItem_credit(charge) ==
    [TRNTYPE |-> IF Head(charge.amount) = "-" THEN "CREDIT" ELSE "DEBIT",
     DTPOSTED |-> DtPosted(charge.date),
     TRNAMT |-> TrnAmt(charge.amount),
     FITID |-> charge.id,
     MEMO |-> charge.title]

\* ofxItem(charge): the fields of one STMTTRN block.
ofxItem(charge) ==
    [TRNTYPE |-> "DEBIT",
     DTPOSTED |-> DtPosted(charge.date),
     TRNAMT |-> TrnAmt(charge.amount),
     FITID |-> charge.id,
     MEMO |-> charge.title]

\* ---------------------------------------------------------------- shorthash
\* The characters of the ids of the model, and their char codes.
IdChars(id) == IF id = "i1" THEN <<"i", "1">> ELSE IF id = "i2" THEN <<"i", "2">> ELSE <<>>

charCodeAt(c) == IF c = "i" THEN 105 ELSE IF c = "1" THEN 49 ELSE IF c = "2" THEN 50 ELSE 0

\* bitwise(str): hash = ((hash << 5) - hash) + ch over the characters.  The
\* ids of the model have two characters, so the hash stays far below 2^31
\* and the conversion to a 32-bit integer changes nothing.
RECURSIVE bitwise(_)
bitwise(cs) ==
    IF cs = <<>> THEN 0
    ELSE bitwise(SubSeq(cs, 1, Len(cs) - 1)) * 32 - bitwise(SubSeq(cs, 1, Len(cs) - 1))
             + charCodeAt(cs[Len(cs)])

table ==
    <<"0", "1", "2", "3", "4", "5", "6", "7", "8", "9", "a", "b", "c",
       "d", "e", "f", "g", "h", "i", "j", "k", "l", "m", "n", "o", "p",
       "q", "r", "s", "t", "u", "v", "w", "x", "y", "z", "A", "B", "C",
       "D", "E", "F", "G", "H", "I", "J", "K", "L", "M", "N", "O", "P",
       "Q", "R", "S", "T", "U", "V", "W", "X", "Y", "Z">>

\* binaryTransfer(integer, binary) of |integer|: its digits in the given
\* base, most significant first (nothing for 0).
RECURSIVE binaryTransfer(_, _)
binaryTransfer(n, binary) ==
    IF n >= binary THEN binaryTransfer(n \div binary, binary) \o table[(n % binary) + 1]
    ELSE IF n > 0 THEN table[n + 1]
    ELSE ""

\* sh.unique(text): binaryTransfer(bitwise(text), 61), whose sign '-' is
\* replaced by 'Z'.
unique(id) ==
    LET h == bitwise(IdChars(id))
    IN (IF h < 0 THEN "Z" ELSE "") \o binaryTransfer(Abs(h), 61)

\* A renderer that ignores the flag.
ofxItemDetailed_never(charge, flag) == ofxItem(charge)

\* ofxItem(itemData, detailed) of the version with the unique-id flag: the
\* same block, with MEMO = `#${shortid} - ${title}` when the flag is set.
ofxItemDetailed(charge, flag) ==
    [TRNTYPE |-> "DEBIT",
     DTPOSTED |-> DtPosted(charge.date),
     TRNAMT |-> TrnAmt(charge.amount),
     FITID |-> charge.id,
     MEMO |-> IF flag THEN "#" \o unique(charge.id) \o " - " \o charge.title
              ELSE charge.title]

\* -------------------------------------------------------------- rendering
\* bills.reduce((charges, bill) => charges.concat(bill.line_items.map(
\*     i => asCharge(i, bill.state, timezoneOffset))), [])
MapAsCharge(bill, tz) ==
    [i \in 1 .. Len(bill.line_items) |-> asCharge(bill.line_items[i], bill.state, tz)]

\* Mutant: each bill's charges are put in front of the accumulator.
RECURSIVE ReduceBills_prepend(_, _, _)
ReduceBills_prepend(bs, tz, acc) ==
    IF bs = <<>> THEN acc
    ELSE ReduceBills_prepend(Tail(bs), tz, MapAsCharge(Head(bs), tz) \o acc)

\* A normalizer that gives every charge the state of the last bill.
RECURSIVE ReduceBills_lastState(_, _, _)
ReduceBills_lastState(bs, tz, acc) ==
    IF bs = <<>> THEN acc
    ELSE ReduceBills_lastState(Tail(bs), tz,
             acc \o [i \in 1 .. Len(Head(bs).line_items) |->
                        asCharge(Head(bs).line_items[i], bs[Len(bs)].state, tz)])

RECURSIVE ReduceBills(_, _, _)
ReduceBills(bs, tz, acc) ==
    IF bs = <<>> THEN acc
    ELSE ReduceBills(Tail(bs), tz, acc \o MapAsCharge(Head(bs), tz))

\* Mutant: only the upper boundary is evaluated.
Keep_upperOnly(f, charge) == upperBoundary(f.upper, charge.date.date, charge.billState)

\* .filter(charge => dateFilter(charge.date.date, charge.billState))
Keep(f, charge) == ApplyFilter(f, charge.date.date, charge.billState)

FilterCharges(cs, f) == SelectSeq(cs, LAMBDA c : Keep(f, c))

NoOutput == [format |-> "none", body |-> <<>>]

\* The header lines of the template.
OfxHeader ==
    <<"OFXHEADER:100", "DATA:OFXSGML", "VERSION:102", "SECURITY:NONE",
      "ENCODING:USASCII", "CHARSET:1252", "COMPRESSION:NONE", "OLDFILEUID:NONE",
      "NEWFILEUID:NONE">>

\* <SIGNONMSGSRSV1><SONRS>: status and language.
OfxSignOn == [CODE |-> "0", SEVERITY |-> "INFO", LANGUAGE |-> "POR"]

\* <CREDITCARDMSGSRSV1><CCSTMTTRNRS>: the one statement response, without its
\* BANKTRANLIST.
OfxStatement ==
    [TRNUID |-> "1001", CODE |-> "0", SEVERITY |-> "INFO", CURDEF |-> "BRL",
     ACCTID |-> "nubank-ofx-preview"]

\* A renderer that refuses an empty list of charges.
generateOfx_nonEmpty(cs) ==
    IF cs = <<>> THEN NoOutput
    ELSE [format |-> "ofx",
          header |-> OfxHeader,
          signon |-> OfxSignOn,
          statements |-> <<OfxStatement>>,
          body |-> [i \in 1 .. Len(cs) |-> ofxItem(cs[i])]]

\* generateOfx(charges): the fixed template around charges.map(ofxItem); body
\* is the content of BANKTRANLIST.
generateOfx(cs) ==
    [format |-> "ofx",
     header |-> OfxHeader,
     signon |-> OfxSignOn,
     statements |-> <<OfxStatement>>,
     body |-> [i \in 1 .. Len(cs) |-> ofxItem(cs[i])]]

\* ------------------------------------------------------------------- JSON
\* A JSON text is modelled by its members: key, kind of the value, and the
\* text of the value (or the members of a nested object).  The strings of
\* the model need no escaping.
JsonString(key, s) == [key |-> key, kind |-> "string", text |-> s]
JsonNumber(key, n) == [key |-> key, kind |-> "number", text |-> NumberToString(n * 100)]
JsonObject(key, ms) == [key |-> key, kind |-> "object", members |-> ms]

\* A serializer that writes the amount with the sign of the OFX form.
stringifyCharge_negated(c) ==
    <<JsonString("id", c.id),
      JsonString("title", c.title),
      JsonString("amount", TrnAmt(c.amount)),
      JsonString("post_date", c.post_date),
      JsonObject("date", <<JsonString("date", c.date.date),
                           JsonNumber("timezoneOffset", c.date.timezoneOffset)>>),
      JsonString("billState", c.billState)>>

\* JSON.stringify of one charge: the keys of the line item in their order,
\* amount holding the normalized string, then date and billState.
stringifyCharge(c) ==
    <<JsonString("id", c.id),
      JsonString("title", c.title),
      JsonString("amount", c.amount),
      JsonString("post_date", c.post_date),
      JsonObject("date", <<JsonString("date", c.date.date),
                           JsonNumber("timezoneOffset", c.date.timezoneOffset)>>),
      JsonString("billState", c.billState)>>

\* JSON.stringify(charges, null, 2)
stringifyCharges(cs) ==
    [format |-> "json", body |-> [i \in 1 .. Len(cs) |-> stringifyCharge(cs[i])]]

\* JSON.parse of an object: one field per key, the last member of a key
\* giving its value; a string member gives its text, a number member the
\* number its text denotes, an object member the parsed object.
RECURSIVE JsonParse(_)
JsonParse(ms) ==
    [k \in {ms[i].key : i \in DOMAIN ms} |->
        LET m == ms[CHOOSE i \in DOMAIN ms :
                       ms[i].key = k /\ \A j \in DOMAIN ms : ms[j].key = k => j =< i]
        IN IF m.kind = "number" THEN StringToNumber(m.text) \div 100
           ELSE IF m.kind = "object" THEN JsonParse(m.members)
           ELSE m.text]

\* JSON.parse of the rendered array.
JsonParseArray(body) == [i \in 1 .. Len(body) |-> JsonParse(body[i])]

\* ------------------------------------------------------------------ inputs
MaxBills == 2
MaxAmount == 12350

\* The line items the account holds: a purchase on the first day of the
\* model and a payment received on its last day.
LineItems ==
    {[id |-> "i1", title |-> "Coffee Shop", amount |-> Number(12345), post_date |-> IsoText(0)],
     [id |-> "i2", title |-> "Pagamento recebido", amount |-> Number(-5000), post_date |-> IsoText(MaxDay)]}

\* The line_items of a bill: any ordering of any subset of the line items.
LineItemSeqs ==
    {<<>>} \cup {<<i>> : i \in LineItems}
           \cup {<<p[1], p[2]>> : p \in {q \in LineItems \X LineItems : q[1] # q[2]}}

\* A bill object that carries no line_items (data.bill of a response is
\* pushed whatever its shape).
BillSummary == [state |-> "closed"]

hasLineItems(bill) == "line_items" \in DOMAIN bill

Bills == [state : BillStates, line_items : LineItemSeqs] \cup {BillSummary}

RECURSIVE SeqsUpTo(_, _)
SeqsUpTo(S, n) ==
    IF n = 0 THEN {<<>>}
    ELSE SeqsUpTo(S, n - 1) \cup {Append(q, x) : q \in {r \in SeqsUpTo(S, n - 1) : Len(r) = n - 1}, x \in S}

BillSeqs == SeqsUpTo(Bills, MaxBills)

TimezoneOffsets == {180, -60}

Amounts == (-MaxAmount) .. MaxAmount

\* ------------------------------------------------------------------- state
VARIABLES
    since,          \* --since
    until,          \* --until
    json,           \* extra.includes('for-sync')
    detailed,       \* the unique-id flag of the renderer
    clock,          \* the current instant
    createdAt,      \* the instant at which createDateFilter ran
    dateFilter,     \* the filter returned by createDateFilter, or NoFilter
    suppressDeprecationWarnings,   \* moment.suppressDeprecationWarnings, a
                    \* global that the caller may have set
    probe,          \* the last call of the filter: arguments and result
    pc,             \* where main() is
    bills,          \* the bills returned by the fetch
    timezoneOffset, \* the timezone offset returned by the fetch
    charges,        \* const charges
    output,         \* const output
    file,           \* what writeToFile wrote
    exitCode,       \* the code given to process.exit, -1 while running
    error,          \* the step whose error main() rejected with, or ""
    item,           \* a raw line item
    charge,         \* asCharge(item, ...), or <<>>
    trn,            \* ofxItem(charge), or <<>>
    requests,       \* waitForNetworkIdle: the option `requests`
    inFlight,       \* waitForNetworkIdle: let inFlight
    timeoutId,      \* the timer timeoutId names is pending
    staleTimers,    \* pending quiet-period timers timeoutId no longer names
    globalTimeoutId,\* the timer globalTimeoutId names is pending
    listening,      \* the three page listeners of the wait are registered
    promise,        \* "none", "pending", "resolved" or "rejected"
    observed,       \* requests in flight whose 'request' event the wait saw
    unobserved,     \* requests in flight that began before the wait
    started,        \* 'request' events since the wait began
    responses,      \* the 'response' events emitted so far, in order
    responseListener,  \* the caller's onResponse is registered on the page
    errorListener,  \* waitForBillData: onError is registered on the page
    result,         \* login: let result
    returned,       \* what fetchBills / login returned, or NotReturned
    browser,        \* "none", "open" or "closed"
    closeCalls,     \* calls of browser.close()
    outcome         \* what fetchBillsAndTimezoneOffset is about to deliver

optvars == <<since, until, json, detailed>>
filtervars == <<createdAt, dateFilter, suppressDeprecationWarnings>>
mainvars == <<pc, bills, timezoneOffset, charges, output, file, exitCode, error>>
itemvars == <<item, charge, trn>>
netvars == <<requests, inFlight, timeoutId, staleTimers, globalTimeoutId,
             listening, promise, observed, unobserved, started>>
pagevars == <<responses, responseListener, errorListener, result, returned>>
browservars == <<browser, closeCalls, outcome>>
vars == <<optvars, clock, filtervars, probe, mainvars, itemvars, netvars, pagevars,
         browservars>>

NoProbe == [called |-> FALSE, dt |-> "", billState |-> "", r |-> FALSE]

NoItem == [id |-> "", title |-> "", amount |-> Number(0), post_date |-> ""]

\* main() has not started.
MainIdle ==
    /\ pc = "idle"
    /\ bills = <<>>
    /\ timezoneOffset = 0
    /\ charges = <<>>
    /\ output = NoOutput
    /\ file = NoOutput
    /\ exitCode = -1
    /\ error = ""

FilterIdle ==
    /\ createdAt = clock
    /\ dateFilter = NoFilter
    /\ probe = NoProbe

ItemIdle == charge = <<>> /\ trn = <<>>

NotReturned == [done |-> FALSE]
Returned(v) == [done |-> TRUE, value |-> v]

\* No browser has been launched.
NoOutcome == [kind |-> "none"]

BrowserIdle ==
    /\ browser = "none"
    /\ closeCalls = 0
    /\ outcome = NoOutcome

\* Neither fetchBills nor login has been called.
PageIdle ==
    /\ BrowserIdle
    /\ responses = <<>>
    /\ responseListener = FALSE
    /\ errorListener = FALSE
    /\ result = "null"
    /\ returned = NotReturned

\* waitForNetworkIdle has not been called.
NetIdle ==
    /\ requests = 0
    /\ inFlight = 0
    /\ timeoutId = FALSE
    /\ staleTimers = 0
    /\ globalTimeoutId = FALSE
    /\ listening = FALSE
    /\ promise = "none"
    /\ observed = 0
    /\ unobserved = 0
    /\ started = 0

\* ------------------------------------------------------- the filter alone
FilterInit ==
    /\ since \in DateSpecs
    /\ until \in DateSpecs
    /\ json = FALSE
    /\ detailed = FALSE
    /\ clock \in Instants
    /\ suppressDeprecationWarnings \in BOOLEAN
    /\ FilterIdle
    /\ MainIdle
    /\ NetIdle
    /\ PageIdle
    /\ item = NoItem /\ ItemIdle

\* const dateFilter = createDateFilter(since, until), then main() goes on to
\* await fetchBillsAndTimezoneOffset(...)
CreateDateFilter ==
    /\ pc = "idle"
    /\ dateFilter' = createDateFilter(since, until, clock)
    /\ createdAt' = clock
    /\ suppressDeprecationWarnings' =
          IF CallsParseDate(since, until) THEN FALSE ELSE suppressDeprecationWarnings
    /\ pc' = "fetching"
    /\ UNCHANGED <<browservars, pagevars, netvars, optvars, clock, probe, bills, timezoneOffset, charges, output,
                   file, exitCode, error, itemvars>>

\* A filter that resolves its boundaries again at every call.
CallFilter_reresolve ==
    /\ dateFilter # NoFilter
    /\ \E dt \in DateTexts, bs \in BillStates :
          probe' = [called |-> TRUE, dt |-> dt, billState |-> bs,
                    r |-> ApplyFilter(createDateFilter(since, until, clock), dt, bs)]
    /\ UNCHANGED <<browservars, pagevars, netvars, optvars, clock, filtervars, mainvars, itemvars>>

\* dateFilter(dt, billState)
CallFilter ==
    /\ dateFilter # NoFilter
    /\ \E dt \in DateTexts, bs \in BillStates :
          probe' = [called |-> TRUE, dt |-> dt, billState |-> bs,
                    r |-> ApplyFilter(dateFilter, dt, bs)]
    /\ UNCHANGED <<browservars, pagevars, netvars, optvars, clock, filtervars, mainvars, itemvars>>

\* Time passes while the filter is in use.
Tick ==
    /\ dateFilter # NoFilter
    /\ clock + 1 \in Instants
    /\ clock < createdAt + MaxElapsed
    /\ clock' = clock + 1
    /\ UNCHANGED <<browservars, pagevars, netvars, optvars, filtervars, probe, mainvars, itemvars>>

FilterNext == CreateDateFilter \/ CallFilter \/ Tick

SpecFilter == FilterInit /\ [][FilterNext]_vars

\* ------------------------------------------------------------ the pipeline
\* One tick after midnight of each day.
StartInstants == {d * DayLen + 1 : d \in Days}

Init ==
    /\ since \in {"open", "forever"}
    /\ until \in {"now", "forever", "open", IsoText(MaxDay)}
    /\ json \in BOOLEAN
    /\ detailed = FALSE
    /\ clock \in StartInstants
    /\ suppressDeprecationWarnings = FALSE
    /\ FilterIdle
    /\ MainIdle
    /\ NetIdle
    /\ PageIdle
    /\ item = NoItem /\ ItemIdle

\* fetchBillsAndTimezoneOffset resolves with {bills, timezoneOffset}.
FetchOk ==
    /\ pc = "fetching"
    /\ \E bs \in BillSeqs, tz \in TimezoneOffsets :
          /\ bills' = bs
          /\ timezoneOffset' = tz
    /\ pc' = "fetched"
    /\ UNCHANGED <<browservars, pagevars, netvars, optvars, clock, filtervars, probe, charges, output, file,
                   exitCode, error, itemvars>>

\* A handler that reports a failed fetch with the exit code of success.
FetchFail_exitZero ==
    /\ pc = "fetching"
    /\ pc' = "exit"
    /\ exitCode' = 0
    /\ error' = "fetch"
    /\ UNCHANGED <<browservars, pagevars, netvars, optvars, clock, filtervars, probe, bills, timezoneOffset,
                   charges, output, file, itemvars>>

\* fetchBillsAndTimezoneOffset rejects (login failed, timeout): main rejects,
\* handleError returns 1 and the process exits with it.
FetchFail ==
    /\ pc = "fetching"
    /\ pc' = "exit"
    /\ exitCode' = 1
    /\ error' = "fetch"
    /\ UNCHANGED <<browservars, pagevars, netvars, optvars, clock, filtervars, probe, bills, timezoneOffset,
                   charges, output, file, itemvars>>

\* bills.reduce(... asCharge ...)
Normalize ==
    /\ pc = "fetched"
    /\ \A b \in 1 .. Len(bills) : hasLineItems(bills[b])
    /\ charges' = ReduceBills(bills, timezoneOffset, <<>>)
    /\ pc' = "normalized"
    /\ UNCHANGED <<browservars, pagevars, netvars, optvars, clock, filtervars, probe, bills, timezoneOffset,
                   output, file, exitCode, error, itemvars>>

\* bill.line_items.map(...) on a bill without line_items throws a TypeError:
\* main rejects and the process exits with 1.
NormalizeThrow ==
    /\ pc = "fetched"
    /\ \E b \in 1 .. Len(bills) : ~hasLineItems(bills[b])
    /\ pc' = "exit"
    /\ exitCode' = 1
    /\ error' = "normalize"
    /\ UNCHANGED <<browservars, pagevars, netvars, optvars, clock, filtervars, probe, bills, timezoneOffset,
                   charges, output, file, itemvars>>

\* .filter(charge => dateFilter(...))
Filter ==
    /\ pc = "normalized"
    /\ charges' = FilterCharges(charges, dateFilter)
    /\ pc' = "filtered"
    /\ UNCHANGED <<browservars, pagevars, netvars, optvars, clock, filtervars, probe, bills, timezoneOffset,
                   output, file, exitCode, error, itemvars>>

\* A main() that renders the charges before filtering them.
Render_unfiltered ==
    /\ pc \in {"normalized", "filtered"}
    /\ output' = IF json THEN stringifyCharges(charges) ELSE generateOfx(charges)
    /\ pc' = "rendered"
    /\ UNCHANGED <<browservars, pagevars, netvars, optvars, clock, filtervars, probe, bills, timezoneOffset,
                   charges, file, exitCode, error, itemvars>>

\* const output = json ? JSON.stringify(charges, null, 2) : generateOfx(charges)
Render ==
    /\ pc = "filtered"
    /\ output' = IF json THEN stringifyCharges(charges) ELSE generateOfx(charges)
    /\ pc' = "rendered"
    /\ UNCHANGED <<browservars, pagevars, netvars, optvars, clock, filtervars, probe, bills, timezoneOffset,
                   charges, file, exitCode, error, itemvars>>

\* await writeToFile(output, outputPath) resolves; main returns 0.
WriteOk ==
    /\ pc = "rendered"
    /\ file' = output
    /\ pc' = "written"
    /\ exitCode' = 0
    /\ UNCHANGED <<browservars, pagevars, netvars, optvars, clock, filtervars, probe, bills, timezoneOffset,
                   charges, output, error, itemvars>>

\* fs.writeFile reports an error: main rejects and the process exits with 1.
WriteFail ==
    /\ pc = "rendered"
    /\ pc' = "exit"
    /\ exitCode' = 1
    /\ error' = "write"
    /\ UNCHANGED <<browservars, pagevars, netvars, optvars, clock, filtervars, probe, bills, timezoneOffset,
                   charges, output, file, itemvars>>

Next ==
    \/ CreateDateFilter
    \/ FetchOk
    \/ FetchFail
    \/ Normalize
    \/ NormalizeThrow
    \/ Filter
    \/ Render
    \/ WriteOk
    \/ WriteFail

Spec == Init /\ [][Next]_vars

\* ------------------------------------------------------ one line item alone
AmountInit ==
    /\ since = "forever"
    /\ until = "forever"
    /\ json = FALSE
    /\ clock = 0
    /\ suppressDeprecationWarnings = FALSE
    /\ FilterIdle
    /\ MainIdle
    /\ NetIdle
    /\ PageIdle
    /\ \/ /\ detailed = FALSE
          /\ item \in [id : {"i1"}, title : {"Coffee Shop"}, amount : {Number(a) : a \in Amounts},
                       post_date : {IsoText(0)}]
       \/ /\ detailed \in BOOLEAN
          /\ item \in LineItems
    /\ ItemIdle

\* asCharge(item, billState, timezoneOffset)
AsCharge ==
    /\ charge = <<>>
    /\ \E bs \in BillStates, tz \in TimezoneOffsets : charge' = asCharge(item, bs, tz)
    /\ UNCHANGED <<browservars, pagevars, netvars, optvars, clock, filtervars, probe, mainvars, item, trn>>

\* ofxItem(charge, detailed)
OfxItem ==
    /\ charge # <<>>
    /\ trn = <<>>
    /\ trn' = ofxItemDetailed(charge, detailed)
    /\ UNCHANGED <<browservars, pagevars, netvars, optvars, clock, filtervars, probe, mainvars, item, charge>>

AmountNext == AsCharge \/ OfxItem

SpecAmount == AmountInit /\ [][AmountNext]_vars

\* ------------------------------------------------- waitForNetworkIdle alone
MaxRequests == 3
MaxEarlier == 1

\* The values of the option `requests`.
RequestLimits == {0, 1}

othervars == <<optvars, clock, filtervars, probe, mainvars, itemvars, pagevars,
              browservars>>

\* The executor of the promise has run: both timers are armed, inFlight is
\* 0 and the three listeners are registered.  Requests that began before the
\* call may still be in flight.
WaitInit ==
    /\ since = "forever"
    /\ until = "forever"
    /\ json = FALSE
    /\ detailed = FALSE
    /\ clock = 0
    /\ suppressDeprecationWarnings = FALSE
    /\ FilterIdle
    /\ MainIdle
    /\ PageIdle
    /\ item = NoItem /\ ItemIdle
    /\ requests \in RequestLimits
    /\ inFlight = 0
    /\ timeoutId = TRUE
    /\ staleTimers = 0
    /\ globalTimeoutId = TRUE
    /\ listening = TRUE
    /\ promise = "pending"
    /\ observed = 0
    /\ unobserved \in 0 .. MaxEarlier
    /\ started = 0

\* The page emits 'request'.  onRequest: ++inFlight, and the quiet-period
\* timer is cleared when inFlight > requests.
OnRequest ==
    /\ started < MaxRequests
    /\ started' = started + 1
    /\ IF listening
       THEN /\ observed' = observed + 1
            /\ inFlight' = inFlight + 1
            /\ timeoutId' = IF inFlight + 1 > requests THEN FALSE ELSE timeoutId
            /\ UNCHANGED unobserved
       ELSE /\ unobserved' = unobserved + 1
            /\ UNCHANGED <<observed, inFlight, timeoutId>>
    /\ UNCHANGED <<othervars, requests, staleTimers, globalTimeoutId, listening, promise>>

\* A handler that decrements without looking at inFlight first.
onResponse_unguarded ==
    IF listening
    THEN /\ inFlight' = inFlight - 1
         /\ IF inFlight - 1 =< requests
            THEN /\ timeoutId' = TRUE
                 /\ staleTimers' = IF timeoutId THEN staleTimers + 1 ELSE staleTimers
            ELSE UNCHANGED <<timeoutId, staleTimers>>
    ELSE UNCHANGED <<inFlight, timeoutId, staleTimers>>

\* onResponse, the handler of 'requestfinished' and 'requestfailed': nothing
\* when inFlight is 0; else --inFlight and, when inFlight <= requests, a new
\* quiet-period timer is armed and assigned to timeoutId (the timer
\* timeoutId named before, if still pending, stays pending).
onResponse ==
    IF listening /\ inFlight > 0
    THEN /\ inFlight' = inFlight - 1
         /\ IF inFlight - 1 =< requests
            THEN /\ timeoutId' = TRUE
                 /\ staleTimers' = IF timeoutId THEN staleTimers + 1 ELSE staleTimers
            ELSE UNCHANGED <<timeoutId, staleTimers>>
    ELSE UNCHANGED <<inFlight, timeoutId, staleTimers>>

\* The page emits 'requestfinished' or 'requestfailed' for a request whose
\* 'request' event the wait saw.
ObservedDone ==
    /\ observed > 0
    /\ observed' = observed - 1
    /\ onResponse
    /\ UNCHANGED <<othervars, requests, globalTimeoutId, listening, promise,
                   unobserved, started>>

\* The page emits 'requestfinished' or 'requestfailed' for a request whose
\* 'request' event the wait did not see: it began before the wait, or after
\* the listeners were removed.
UnobservedDone ==
    /\ unobserved > 0
    /\ unobserved' = unobserved - 1
    /\ onResponse
    /\ UNCHANGED <<othervars, requests, globalTimeoutId, listening, promise,
                   observed, started>>

\* cleanup(): the deferred functions, last pushed first: the listeners are
\* removed, clearTimeout(timeoutId), clearTimeout(globalTimeoutId).
cleanup ==
    /\ listening' = FALSE
    /\ timeoutId' = FALSE
    /\ globalTimeoutId' = FALSE

\* The timer timeoutId names fires: cleanupAndResolve.
QuietTimeout ==
    /\ timeoutId
    /\ cleanup
    /\ promise' = IF promise = "pending" THEN "resolved" ELSE promise
    /\ UNCHANGED <<othervars, requests, inFlight, staleTimers, observed, unobserved,
                   started>>

\* A quiet-period timer that timeoutId no longer names fires:
\* cleanupAndResolve.
StaleTimeout ==
    /\ staleTimers > 0
    /\ staleTimers' = staleTimers - 1
    /\ cleanup
    /\ promise' = IF promise = "pending" THEN "resolved" ELSE promise
    /\ UNCHANGED <<othervars, requests, inFlight, observed, unobserved, started>>

\* The timer globalTimeoutId names fires: cleanupAndReject.
GlobalTimeout ==
    /\ globalTimeoutId
    /\ cleanup
    /\ promise' = IF promise = "pending" THEN "rejected" ELSE promise
    /\ UNCHANGED <<othervars, requests, inFlight, staleTimers, observed, unobserved,
                   started>>

WaitNext ==
    \/ OnRequest
    \/ ObservedDone
    \/ UnobservedDone
    \/ QuietTimeout
    \/ StaleTimeout
    \/ GlobalTimeout

SpecWait == WaitInit /\ [][WaitNext]_vars

\* --------------------------------------------------------- fetchBills alone
MaxResponses == 2

\* Bodies of the responses of the bills page: a bill, or something else.
OpenBill == [state |-> "open", line_items |-> <<CHOOSE i \in LineItems : i.id = "i1">>]
ClosedBill == [state |-> "closed", line_items |-> <<CHOOSE i \in LineItems : i.id = "i2">>]

FetchBodies == {[kind |-> "bill", bill |-> OpenBill], [kind |-> "bill", bill |-> ClosedBill],
                [kind |-> "other"]}

\* The state shared by the page-listener specifications at their start: the
\* caller's 'response' listener is registered and the promise of
\* waitForNetworkIdle is pending (the wait itself is not detailed here).
PageInit ==
    /\ since = "forever"
    /\ until = "forever"
    /\ json = FALSE
    /\ detailed = FALSE
    /\ clock = 0
    /\ suppressDeprecationWarnings = FALSE
    /\ FilterIdle
    /\ pc = "fetching"
    /\ bills = <<>>
    /\ timezoneOffset = 0
    /\ charges = <<>>
    /\ output = NoOutput
    /\ file = NoOutput
    /\ exitCode = -1
    /\ error = ""
    /\ item = NoItem /\ ItemIdle
    /\ requests = 0
    /\ inFlight = 0
    /\ timeoutId = FALSE
    /\ staleTimers = 0
    /\ globalTimeoutId = FALSE
    /\ listening = FALSE
    /\ promise = "pending"
    /\ observed = 0
    /\ unobserved = 0
    /\ started = 0
    /\ responses = <<>>
    /\ responseListener = TRUE
    /\ result = "null"
    /\ returned = NotReturned
    /\ BrowserIdle

\* The promise of waitForNetworkIdle resolves.
WaitResolved ==
    /\ promise = "pending"
    /\ promise' = "resolved"
    /\ UNCHANGED <<browservars, optvars, clock, filtervars, probe, mainvars, itemvars, pagevars,
                   requests, inFlight, timeoutId, staleTimers, globalTimeoutId,
                   listening, observed, unobserved, started>>

\* The promise of waitForNetworkIdle rejects (global timeout).
WaitRejected ==
    /\ promise = "pending"
    /\ promise' = "rejected"
    /\ UNCHANGED <<browservars, optvars, clock, filtervars, probe, mainvars, itemvars, pagevars,
                   requests, inFlight, timeoutId, staleTimers, globalTimeoutId,
                   listening, observed, unobserved, started>>

\* The page emits 'response'.  If onResponse is registered it starts and,
\* when it gets that far (awaits), suspends at `await response.json()`;
\* early records whether the wait was still pending.
OnPageResponse(body, awaits) ==
    /\ Len(responses) < MaxResponses
    /\ responses' = Append(responses,
                           [body |-> body,
                            json |-> IF ~responseListener THEN "unheard"
                                     ELSE IF awaits THEN "pending"
                                     ELSE "ignored",
                            early |-> promise = "pending"])

\* fetchBills: a 'response' event.
FetchResponse ==
    /\ \E body \in FetchBodies : OnPageResponse(body, TRUE)
    /\ UNCHANGED <<browservars, optvars, clock, filtervars, probe, mainvars, itemvars, netvars,
                   responseListener, errorListener, result, returned>>

\* fetchBills, onResponse resumed: response.json() has settled; a body that
\* carries a bill is pushed onto the bills array.
FetchJsonDone ==
    /\ \E i \in 1 .. Len(responses) :
          /\ responses[i].json = "pending"
          /\ responses' = [responses EXCEPT ![i].json = "done"]
          /\ bills' = IF responses[i].body.kind = "bill"
                      THEN Append(bills, responses[i].body.bill)
                      ELSE bills
    /\ UNCHANGED <<browservars, optvars, clock, filtervars, probe, pc, timezoneOffset, charges,
                   output, file, exitCode, error, itemvars, netvars,
                   responseListener, errorListener, result, returned>>

\* fetchBills: the awaited Promise.all resolved; finally removes the
\* listener and the bills array is returned.
FetchBillsReturn ==
    /\ promise = "resolved"
    /\ responseListener
    /\ responseListener' = FALSE
    /\ returned' = Returned(bills)
    /\ pc' = "fetched"
    /\ UNCHANGED <<browservars, optvars, clock, filtervars, probe, bills, timezoneOffset, charges,
                   output, file, exitCode, error, itemvars, netvars, responses,
                   errorListener, result>>

\* fetchBills: the awaited Promise.all rejected; finally removes the listener
\* and the error propagates.
FetchBillsThrow ==
    /\ promise = "rejected"
    /\ responseListener
    /\ responseListener' = FALSE
    /\ pc' = "exit"
    /\ exitCode' = 1
    /\ error' = "fetch"
    /\ UNCHANGED <<browservars, optvars, clock, filtervars, probe, bills, timezoneOffset, charges,
                   output, file, itemvars, netvars, responses,
                   errorListener, result, returned>>

FetchBillsNext ==
    \/ WaitResolved
    \/ WaitRejected
    \/ FetchResponse
    \/ FetchJsonDone
    \/ FetchBillsReturn
    \/ FetchBillsThrow

FetchBillsInit == PageInit /\ errorListener = FALSE

SpecFetchBills == FetchBillsInit /\ [][FetchBillsNext]_vars

\* -------------------------------------------------------------- login alone
\* Responses seen during login: to the password-grant POST (with the JSON
\* the server sent, or a body that is not JSON), or to another request.
LoginBodies ==
    {[kind |-> "grant", data |-> "access_token"], [kind |-> "grant", data |-> "denied"],
     [kind |-> "grant", data |-> "unparseable"], [kind |-> "other"]}

\* The synthetic result of a login that saw no answer.
PleaseVerify == "Please verify your username and password"

\* login: a 'response' event; onResponse returns at once unless the request
\* is a POST whose body has grant_type and password.
LoginResponse ==
    /\ \E body \in LoginBodies : OnPageResponse(body, body.kind = "grant")
    /\ UNCHANGED <<browservars, optvars, clock, filtervars, probe, mainvars, itemvars, netvars,
                   responseListener, errorListener, result, returned>>

\* login, onResponse resumed: result = await response.json().catch(() => null)
LoginJsonDone ==
    /\ \E i \in 1 .. Len(responses) :
          /\ responses[i].json = "pending"
          /\ responses' = [responses EXCEPT ![i].json = "done"]
          /\ result' = IF responses[i].body.data = "unparseable" THEN "null"
                       ELSE responses[i].body.data
    /\ UNCHANGED <<browservars, optvars, clock, filtervars, probe, mainvars, itemvars, netvars,
                   responseListener, errorListener, returned>>

\* login: the awaited Promise.all resolved; finally removes the listener;
\* a null result is replaced by the synthetic error.
LoginReturn ==
    /\ promise = "resolved"
    /\ responseListener
    /\ responseListener' = FALSE
    /\ returned' = Returned(IF result = "null" THEN PleaseVerify ELSE result)
    /\ UNCHANGED <<browservars, optvars, clock, filtervars, probe, mainvars, itemvars, netvars,
                   responses, errorListener, result>>

\* login: the awaited Promise.all rejected; finally removes the listener and
\* the error propagates.
LoginThrow ==
    /\ promise = "rejected"
    /\ responseListener
    /\ responseListener' = FALSE
    /\ pc' = "exit"
    /\ exitCode' = 1
    /\ error' = "fetch"
    /\ UNCHANGED <<browservars, optvars, clock, filtervars, probe, bills, timezoneOffset, charges,
                   output, file, itemvars, netvars, responses,
                   errorListener, result, returned>>

LoginNext ==
    \/ WaitResolved
    \/ WaitRejected
    \/ LoginResponse
    \/ LoginJsonDone
    \/ LoginReturn
    \/ LoginThrow

LoginInit == PageInit /\ errorListener = FALSE

SpecLogin == LoginInit /\ [][LoginNext]_vars

\* ------------------------------------------------------ waitForBillData alone
\* The executor of the promise has run: onError and onResponse are
\* registered.
BillDataInit == PageInit /\ errorListener = TRUE

\* The page emits 'response'; onResponse starts response.json().
BillResponse ==
    /\ \E body \in FetchBodies : OnPageResponse(body, TRUE)
    /\ UNCHANGED <<browservars, optvars, clock, filtervars, probe, mainvars, itemvars, netvars,
                   responseListener, errorListener, result, returned>>

\* response.json() has settled: a body carrying a bill in state 'open'
\* resolves the promise with the bill (a settled promise stays as it is).
BillJsonDone ==
    /\ \E i \in 1 .. Len(responses) :
          /\ responses[i].json = "pending"
          /\ responses' = [responses EXCEPT ![i].json = "done"]
          /\ IF /\ responses[i].body.kind = "bill"
                /\ responses[i].body.bill.state = "open"
                /\ promise = "pending"
             THEN /\ promise' = "resolved"
                  /\ returned' = Returned(responses[i].body.bill)
             ELSE UNCHANGED <<promise, returned>>
    /\ UNCHANGED <<browservars, optvars, clock, filtervars, probe, mainvars, itemvars,
                   requests, inFlight, timeoutId, staleTimers, globalTimeoutId,
                   listening, observed, unobserved, started,
                   responseListener, errorListener, result>>

\* The page emits 'error'; onError removes both listeners and rejects.
BillPageError ==
    /\ errorListener
    /\ errorListener' = FALSE
    /\ responseListener' = FALSE
    /\ promise' = IF promise = "pending" THEN "rejected" ELSE promise
    /\ UNCHANGED <<browservars, optvars, clock, filtervars, probe, mainvars, itemvars,
                   requests, inFlight, timeoutId, staleTimers, globalTimeoutId,
                   listening, observed, unobserved, started,
                   responses, result, returned>>

BillDataNext ==
    \/ BillResponse
    \/ BillJsonDone
    \/ BillPageError

SpecBillData == BillDataInit /\ [][BillDataNext]_vars

\* --------------------------------------- fetchBillsAndTimezoneOffset alone
\* main() with fetchBillsAndTimezoneOffset taken step by step.
BrowserInit ==
    /\ since = "forever"
    /\ until = "forever"
    /\ json \in BOOLEAN
    /\ detailed = FALSE
    /\ clock = 1
    /\ suppressDeprecationWarnings = FALSE
    /\ FilterIdle
    /\ MainIdle
    /\ NetIdle
    /\ PageIdle
    /\ item = NoItem /\ ItemIdle

\* const browser = await puppeteer.launch(...) resolves.
Launch ==
    /\ pc = "fetching"
    /\ browser = "none"
    /\ browser' = "open"
    /\ pc' = "login"
    /\ UNCHANGED <<closeCalls, outcome, pagevars, netvars, optvars, clock, filtervars, probe, bills,
                   timezoneOffset, charges, output, file, exitCode, error, itemvars>>

\* puppeteer.launch rejects, before the try block: main rejects.
LaunchFail ==
    /\ pc = "fetching"
    /\ browser = "none"
    /\ pc' = "exit"
    /\ exitCode' = 1
    /\ error' = "fetch"
    /\ UNCHANGED <<browservars, pagevars, netvars, optvars, clock, filtervars, probe, bills,
                   timezoneOffset, charges, output, file, itemvars>>

\* newPage, then login returns a result without an error.
LoginSucceeds ==
    /\ pc = "login"
    /\ pc' = "fetchBills"
    /\ UNCHANGED <<browservars, pagevars, netvars, optvars, clock, filtervars, probe, bills,
                   timezoneOffset, charges, output, file, exitCode, error, itemvars>>

\* A login failure thrown where no finally block catches it.
LoginFails_noFinally ==
    /\ pc = "login"
    /\ outcome' = [kind |-> "error", at |-> "login"]
    /\ pc' = "closed"
    /\ UNCHANGED <<browser, closeCalls, pagevars, netvars, optvars, clock, filtervars, probe, bills,
                   timezoneOffset, charges, output, file, exitCode, error, itemvars>>

\* login returns a result with an error ('Login failed: ...' is thrown), or
\* newPage or login itself throws: control passes to the finally block.
LoginFails ==
    /\ pc = "login"
    /\ outcome' = [kind |-> "error", at |-> "login"]
    /\ pc' = "finally"
    /\ UNCHANGED <<browser, closeCalls, pagevars, netvars, optvars, clock, filtervars, probe, bills,
                   timezoneOffset, charges, output, file, exitCode, error, itemvars>>

\* const bills = await fetchBills(page, timeout)
FetchBillsSucceeds ==
    /\ pc = "fetchBills"
    /\ \E bs \in BillSeqs : outcome' = [kind |-> "bills", bills |-> bs]
    /\ pc' = "timezone"
    /\ UNCHANGED <<browser, closeCalls, pagevars, netvars, optvars, clock, filtervars, probe, bills,
                   timezoneOffset, charges, output, file, exitCode, error, itemvars>>

\* fetchBills throws (navigation or idle timeout).
FetchBillsFails ==
    /\ pc = "fetchBills"
    /\ outcome' = [kind |-> "error", at |-> "fetchBills"]
    /\ pc' = "finally"
    /\ UNCHANGED <<browser, closeCalls, pagevars, netvars, optvars, clock, filtervars, probe, bills,
                   timezoneOffset, charges, output, file, exitCode, error, itemvars>>

\* const timezoneOffset = await page.evaluate(...); return {bills, timezoneOffset}
\* leaves the try block through finally.
TimezoneSucceeds ==
    /\ pc = "timezone"
    /\ \E tz \in TimezoneOffsets :
          outcome' = [kind |-> "result", bills |-> outcome.bills, timezoneOffset |-> tz]
    /\ pc' = "finally"
    /\ UNCHANGED <<browser, closeCalls, pagevars, netvars, optvars, clock, filtervars, probe, bills,
                   timezoneOffset, charges, output, file, exitCode, error, itemvars>>

\* page.evaluate throws.
TimezoneFails ==
    /\ pc = "timezone"
    /\ outcome' = [kind |-> "error", at |-> "timezone"]
    /\ pc' = "finally"
    /\ UNCHANGED <<browser, closeCalls, pagevars, netvars, optvars, clock, filtervars, probe, bills,
                   timezoneOffset, charges, output, file, exitCode, error, itemvars>>

\* finally { await browser.close(); }
BrowserClose ==
    /\ pc = "finally"
    /\ browser' = "closed"
    /\ closeCalls' = closeCalls + 1
    /\ pc' = "closed"
    /\ UNCHANGED <<outcome, pagevars, netvars, optvars, clock, filtervars, probe, bills,
                   timezoneOffset, charges, output, file, exitCode, error, itemvars>>

\* const {bills, timezoneOffset} = await fetchBillsAndTimezoneOffset(...)
DeliverResult ==
    /\ pc = "closed"
    /\ outcome.kind = "result"
    /\ bills' = outcome.bills
    /\ timezoneOffset' = outcome.timezoneOffset
    /\ pc' = "fetched"
    /\ UNCHANGED <<browservars, pagevars, netvars, optvars, clock, filtervars, probe, charges,
                   output, file, exitCode, error, itemvars>>

\* The rejection of fetchBillsAndTimezoneOffset rejects main: handleError
\* returns 1.
DeliverError ==
    /\ pc = "closed"
    /\ outcome.kind = "error"
    /\ pc' = "exit"
    /\ exitCode' = 1
    /\ error' = "fetch"
    /\ UNCHANGED <<browservars, pagevars, netvars, optvars, clock, filtervars, probe, bills,
                   timezoneOffset, charges, output, file, itemvars>>

BrowserNext ==
    \/ CreateDateFilter
    \/ Launch
    \/ LaunchFail
    \/ LoginSucceeds
    \/ LoginFails
    \/ FetchBillsSucceeds
    \/ FetchBillsFails
    \/ TimezoneSucceeds
    \/ TimezoneFails
    \/ BrowserClose
    \/ DeliverResult
    \/ DeliverError
    \/ Normalize
    \/ NormalizeThrow
    \/ Filter
    \/ Render
    \/ WriteOk
    \/ WriteFail

SpecBrowser == BrowserInit /\ [][BrowserNext]_vars

\* ------------------------------------------- line items without an amount
\* A line item whose amount is missing, null, the empty string or a text
\* that is not a number.
MalformedItems ==
    {[id |-> "i3", title |-> "Estorno", post_date |-> IsoText(0)]}
    \cup [id : {"i3"}, title : {"Estorno"}, post_date : {IsoText(0)},
          amount : {Null, Str(<<>>), Str(<<"a", "b", "c">>)}]

\* Bills that hold one such line item, alone or beside a regular one.
MalformedBills ==
    [state : BillStates,
     line_items : {<<m>> : m \in MalformedItems}
                  \cup {<<g, m>> : g \in LineItems, m \in MalformedItems}
                  \cup {<<m, g>> : g \in LineItems, m \in MalformedItems}]

MalformedInit ==
    /\ since = "forever"
    /\ until \in {"forever", "open"}
    /\ json \in BOOLEAN
    /\ detailed = FALSE
    /\ clock = 1
    /\ suppressDeprecationWarnings = FALSE
    /\ FilterIdle
    /\ MainIdle
    /\ NetIdle
    /\ PageIdle
    /\ item = NoItem /\ ItemIdle

\* fetchBillsAndTimezoneOffset resolves with a statement that holds a
\* malformed line item.
FetchMalformed ==
    /\ pc = "fetching"
    /\ \E b \in MalformedBills, tz \in TimezoneOffsets :
          /\ bills' \in {<<b>>} \cup {<<g, b>> : g \in {OpenBill, ClosedBill}}
          /\ timezoneOffset' = tz
    /\ pc' = "fetched"
    /\ UNCHANGED <<browservars, pagevars, netvars, optvars, clock, filtervars, probe, charges, output, file,
                   exitCode, error, itemvars>>

MalformedNext ==
    \/ CreateDateFilter
    \/ FetchMalformed
    \/ Normalize
    \/ Filter
    \/ Render
    \/ WriteOk
    \/ WriteFail

SpecMalformed == MalformedInit /\ [][MalformedNext]_vars

\* ------------------------------------------------------- filter properties
DayOf(text) == CHOOSE d \in Days : DayTexts[d] = text
IsDay(text) == text \in IsoTexts

\* The calendar day on which the filter was created ("today").
Today == createdAt \div DayLen

Created == dateFilter # NoFilter

\* C1: with concrete calendar dates since = S and until = U the filter accepts
\* (date, billState) iff date is a calendar date with S <= date < U, whatever
\* the billState; the last call of the filter returned that value.
C1_ConcreteRange ==
    (Created /\ IsDay(since) /\ IsDay(until)) =>
        /\ \A dt \in DateTexts, bs \in BillStates :
              ApplyFilter(dateFilter, dt, bs) <=>
                  (IsDay(dt) /\ DayOf(since) =< DayOf(dt) /\ DayOf(dt) < DayOf(until))
        /\ probe.called =>
              (probe.r <=> (/\ IsDay(probe.dt)
                            /\ DayOf(since) =< DayOf(probe.dt)
                            /\ DayOf(probe.dt) < DayOf(until)))

\* A charge dated exactly S was accepted by a filter with concrete S < U.
C1_Witness ==
    /\ Created /\ IsDay(since) /\ IsDay(until)
    /\ probe.called /\ probe.dt = since /\ probe.r

\* C2: createDateFilter('open', 'forever') accepts every charge of an open
\* bill, whatever its date (unparseable included), and accepts a charge of
\* any other bill only if its date is a calendar date on or after today.
C2_OpenForever ==
    (Created /\ since = "open" /\ until = "forever") =>
        /\ \A dt \in DateTexts : ApplyFilter(dateFilter, dt, "open")
        /\ \A dt \in DateTexts, bs \in BillStates \ {"open"} :
              ApplyFilter(dateFilter, dt, bs) => (IsDay(dt) /\ DayOf(dt) >= Today)
        /\ (probe.called /\ probe.billState = "open") => probe.r
        /\ (probe.called /\ probe.billState # "open" /\ probe.r) =>
              (IsDay(probe.dt) /\ DayOf(probe.dt) >= Today)

\* An unparseable date of an open bill was accepted by ('open', 'forever').
C2_Witness ==
    /\ Created /\ since = "open" /\ until = "forever"
    /\ probe.called /\ probe.dt \in Garbage /\ probe.billState = "open" /\ probe.r

\* C2, second case: a future-dated charge of a closed bill was accepted.
C2_WitnessClosed ==
    /\ Created /\ since = "open" /\ until = "forever"
    /\ probe.called /\ probe.billState = "closed" /\ probe.r

\* C3: createDateFilter('forever', 'now') accepts every date before today
\* whatever the billState, accepts today's date with billState 'open',
\* rejects every later date with billState 'open', and 'now' is resolved to
\* the current instant, not to an invalid date.
C3_ForeverNow ==
    (Created /\ since = "forever" /\ until = "now") =>
        /\ dateFilter.upper.at = At(createdAt)
        /\ \A d \in Days, bs \in BillStates :
              d < Today => ApplyFilter(dateFilter, IsoText(d), bs)
        /\ ApplyFilter(dateFilter, IsoText(Today), "open")
        /\ \A d \in Days : d > Today => ~ApplyFilter(dateFilter, IsoText(d), "open")

\* C3 without the case of today's date: past dates accepted, later dates
\* rejected, 'now' resolved to the current instant.
C3_PastAndFuture ==
    (Created /\ since = "forever" /\ until = "now") =>
        /\ dateFilter.upper.at = At(createdAt)
        /\ \A d \in Days, bs \in BillStates :
              d < Today => ApplyFilter(dateFilter, IsoText(d), bs)
        /\ \A d \in Days : d > Today => ~ApplyFilter(dateFilter, IsoText(d), "open")

\* C4: createDateFilter('forever', 'forever') accepts every pair, and a
\* 'forever' boundary passes every pair in either role.
C4_ForeverForever ==
    Created =>
        /\ since = "forever" =>
              \A dt \in DateTexts, bs \in BillStates : lowerBoundary(dateFilter.lower, dt, bs)
        /\ until = "forever" =>
              \A dt \in DateTexts, bs \in BillStates : upperBoundary(dateFilter.upper, dt, bs)
        /\ (since = "forever" /\ until = "forever") =>
              /\ \A dt \in DateTexts, bs \in BillStates : ApplyFilter(dateFilter, dt, bs)
              /\ probe.called => probe.r

\* An unparseable date of a non-open bill was accepted by ('forever', 'forever').
C4_Witness ==
    /\ Created /\ since = "forever" /\ until = "forever"
    /\ probe.called /\ probe.dt \in Garbage /\ probe.billState # "open" /\ probe.r

\* C5: with billState # 'open' an 'open' boundary behaves as the boundary of
\* the same role resolved to today: Lower passes iff the date is on or after
\* today, Upper passes iff the date is strictly before today; with billState
\* 'open' it passes every date.
C5_OpenBoundary ==
    Created =>
        /\ since = "open" =>
              \A dt \in DateTexts :
                  /\ lowerBoundary(dateFilter.lower, dt, "open")
                  /\ \A bs \in BillStates \ {"open"} :
                        lowerBoundary(dateFilter.lower, dt, bs) <=>
                            (IsDay(dt) /\ DayOf(dt) >= Today)
        /\ until = "open" =>
              \A dt \in DateTexts :
                  /\ upperBoundary(dateFilter.upper, dt, "open")
                  /\ \A bs \in BillStates \ {"open"} :
                        upperBoundary(dateFilter.upper, dt, bs) <=>
                            (IsDay(dt) /\ DayOf(dt) < Today)

\* C7: createDateFilter returns no filter when since or until is unparseable,
\* and a returned filter never holds a boundary built from an invalid date.
C7_InvalidDateSpec ==
    /\ (since \in Garbage \/ until \in Garbage) => ~Created
    /\ Created =>
          /\ dateFilter.lower.kind \in {"open", "date"} => dateFilter.lower.at.valid
          /\ dateFilter.upper.kind \in {"open", "date"} => dateFilter.upper.at.valid

\* ----------------------------------------------------- pipeline properties
\* The positions <<b, i>> of the line items of the fetched bills.
Positions == {p \in (1 .. Len(bills)) \X (1 .. Cardinality(LineItems)) : p[2] =< Len(bills[p[1]].line_items)}

Before(p, q) == p[1] < q[1] \/ (p[1] = q[1] /\ p[2] < q[2])

ItemAt(p) == bills[p[1]].line_items[p[2]]
StateAt(p) == bills[p[1]].state

\* The positions whose (post_date, owning bill's state) the filter accepts.
Accepted == {p \in Positions : ApplyFilter(dateFilter, ItemAt(p).post_date, StateAt(p))}

\* The place of position p among the positions acc.
Rank(acc, p) == 1 + Cardinality({q \in acc : Before(q, p)})

Filtered == pc \in {"filtered", "rendered", "written"}

\* C8: the exported charges are the normalized line items of the fetched
\* bills, in bill order and then line-item order, restricted to exactly those
\* whose (post_date, bill state) the date filter accepts: one charge per
\* accepted line item, none for a rejected one, order kept; the rendered
\* output and the written file hold one entry per charge, in that order.
C8_ExportIsFilteredConcat ==
    /\ Filtered =>
          LET acc == Accepted IN
          /\ Len(charges) = Cardinality(acc)
          /\ \A p \in acc :
                LET c == charges[Rank(acc, p)] IN
                /\ c.id = ItemAt(p).id
                /\ c.title = ItemAt(p).title
                /\ c.date.date = ItemAt(p).post_date
                /\ c.billState = StateAt(p)
                /\ StringToNumber(c.amount) = ItemAt(p).amount.value
    /\ pc \in {"rendered", "written"} =>
          /\ Len(output.body) = Len(charges)
          /\ \A k \in 1 .. Len(charges) :
                IF json THEN JsonParse(output.body[k]).id = charges[k].id
                ELSE output.body[k].FITID = charges[k].id
    /\ pc = "written" => file = output

\* Two bills were fetched, a line item was rejected and two were exported.
C8_Witness ==
    /\ pc = "written"
    /\ Len(bills) = 2
    /\ Len(file.body) >= 2
    /\ Cardinality(Positions) > Len(file.body)
    /\ bills[1].state # bills[2].state

\* C6: with since = 'open', a charge of a non-open bill is exported only if
\* its date is on or after today and it passes the upper boundary, and the
\* charges of open bills that are exported are exactly those that pass the
\* upper boundary; no closed-bill charge dated before today is exported.
C6_SinceOpen ==
    (Filtered /\ since = "open") =>
        /\ \A k \in 1 .. Len(charges) :
              charges[k].billState # "open" =>
                  /\ IsDay(charges[k].date.date)
                  /\ DayOf(charges[k].date.date) >= Today
                  /\ upperBoundary(dateFilter.upper, charges[k].date.date,
                                   charges[k].billState)
        /\ \A k \in 1 .. Len(charges) :
              charges[k].billState = "open" =>
                  upperBoundary(dateFilter.upper, charges[k].date.date, "open")
        /\ Cardinality({k \in 1 .. Len(charges) : charges[k].billState = "open"})
              = Cardinality({p \in Positions :
                    /\ StateAt(p) = "open"
                    /\ upperBoundary(dateFilter.upper, ItemAt(p).post_date, "open")})

\* Under since = 'open' a charge of a closed bill and a charge of an open
\* bill were exported, and a closed-bill charge was left out.
C6_Witness ==
    /\ pc = "written" /\ since = "open"
    /\ \E k \in 1 .. Len(charges) : charges[k].billState = "closed"
    /\ \E k \in 1 .. Len(charges) : charges[k].billState = "open"
    /\ \E p \in Positions : StateAt(p) = "closed" /\ p \notin Accepted

\* ------------------------------------------------------- amount properties
\* A decimal string with exactly two fraction digits.
TwoDecimals(cs) ==
    /\ Len(cs) >= 4
    /\ cs[Len(cs) - 2] = "."
    /\ IsDigit(cs[Len(cs) - 1])
    /\ IsDigit(cs[Len(cs)])
    /\ \A i \in 1 .. (Len(cs) - 3) : IsDigit(cs[i]) \/ (i = 1 /\ cs[i] = "-")

\* C9: TRNAMT is the raw amount divided by 100 and negated, each once,
\* printed with exactly two decimal places.
C9_TrnAmtTwoDecimals ==
    trn # <<>> =>
        /\ StringToNumber(trn.TRNAMT) = -item.amount.value
        /\ TwoDecimals(trn.TRNAMT)
        /\ item.amount.value = 12345 => trn.TRNAMT = <<"-", "1", "2", "3", ".", "4", "5">>
        /\ item.amount.value = 12350 => trn.TRNAMT = <<"-", "1", "2", "3", ".", "5", "0">>
        /\ item.amount.value = 10000 => trn.TRNAMT = <<"-", "1", "0", "0", ".", "0", "0">>

\* C9, the value alone: TRNAMT denotes the raw amount divided by 100 and
\* negated, each once.
C9_TrnAmtValue ==
    trn # <<>> => StringToNumber(trn.TRNAMT) = -item.amount.value

\* C10: the normalized amount is the raw amount divided by 100, with the
\* sign of the raw amount, printed with exactly two decimal places.
C10_NormalizedAmount ==
    charge # <<>> =>
        /\ TwoDecimals(charge.amount)
        /\ StringToNumber(charge.amount) = item.amount.value
        /\ (charge.amount[1] = "-") <=> (item.amount.value < 0)
        /\ item.amount.value = 12345 => charge.amount = <<"1", "2", "3", ".", "4", "5">>

\* The raw amount 12345 was normalized to 123.45 and rendered.
C10_Witness ==
    /\ item.amount.value = 12345
    /\ charge # <<>> /\ charge.amount = <<"1", "2", "3", ".", "4", "5">>
    /\ trn # <<>>

\* ------------------------------------------------------- export properties
\* C11: within one export the charge ids are pairwise distinct: the ids of
\* the exported charges, and so the FITIDs of the OFX document and the ids of
\* the JSON array, for every sequence of bills collected by the fetch.
C11_UniqueIds ==
    Filtered =>
        \A j, k \in 1 .. Len(charges) : j # k => charges[j].id # charges[k].id

\* C12: the OFX document holds exactly one STMTTRN block per exported charge,
\* in the order of the charges, and every block has TRNTYPE DEBIT whatever
\* the sign of the charge's amount.
C12_OneDebitPerCharge ==
    (pc \in {"rendered", "written"} /\ ~json) =>
        /\ output.format = "ofx"
        /\ Len(output.body) = Len(charges)
        /\ \A k \in 1 .. Len(charges) :
               /\ output.body[k].FITID = charges[k].id
               /\ output.body[k].MEMO = charges[k].title
               /\ output.body[k].TRNTYPE = "DEBIT"

\* An OFX document was rendered from a purchase followed by a payment
\* received (negative amount).
C12_Witness ==
    /\ pc = "rendered" /\ ~json
    /\ Len(charges) = 2
    /\ Head(charges[1].amount) # "-"
    /\ Head(charges[2].amount) = "-"
    /\ Len(output.body) = 2

\* The hour text between '[' and ':GMT]' of a DTPOSTED value.
HoursOf(dt) == SubSeq(dt, 16, Len(dt) - 5)

\* C13: every block's DTPOSTED is the charge's calendar date as YYYYMMDD,
\* then 000000, then [h:GMT] where h is the negated timezone offset in hours
\* (180 gives [-3:GMT]); the offset is the one captured by the fetch, the
\* same for every charge of the run.
C13_DtPosted ==
    (pc \in {"rendered", "written"} /\ ~json) =>
        \A k \in 1 .. Len(charges) :
            LET dt == output.body[k].DTPOSTED
                d == DayOf(charges[k].post_date)
            IN /\ IsDay(charges[k].post_date)
               /\ NatVal(SubSeq(dt, 1, 8)) = 20180501 + d
               /\ SubSeq(dt, 9, 15) = <<"0", "0", "0", "0", "0", "0", "[">>
               /\ SubSeq(dt, Len(dt) - 4, Len(dt)) = <<":", "G", "M", "T", "]">>
               /\ StringToNumber(HoursOf(dt)) * 60 = -(timezoneOffset * 100)
               /\ timezoneOffset = 180 => HoursOf(dt) = <<"-", "3">>
               /\ timezoneOffset = -60 => HoursOf(dt) = <<"1">>

\* Two charges were rendered in a run whose offset is 180 minutes; the first
\* is dated 2018-05-01.
C13_Witness ==
    /\ pc = "rendered" /\ ~json
    /\ timezoneOffset = 180
    /\ Len(output.body) = 2
    /\ output.body[1].DTPOSTED =
           <<"2", "0", "1", "8", "0", "5", "0", "1", "0", "0", "0", "0", "0", "0",
             "[", "-", "3", ":", "G", "M", "T", "]">>
    /\ HoursOf(output.body[2].DTPOSTED) = <<"-", "3">>

\* ------------------------------------------------------------ one block
\* C14: with the unique-id flag the MEMO of a charge is '#', the short hash
\* of its id, ' - ' and its title, the hash depending on the id alone;
\* without the flag MEMO is the title.  The other fields of the block do not
\* depend on the flag.
C14_Memo ==
    trn # <<>> =>
        /\ (detailed /\ item.id = "i1") => trn.MEMO = "#Sa - " \o item.title
        /\ (detailed /\ item.id = "i2") => trn.MEMO = "#Sb - " \o item.title
        /\ ~detailed => trn.MEMO = item.title
        /\ [trn EXCEPT !.MEMO = item.title] = ofxItem(charge)

\* The flag was set and the block of the payment 'Pagamento recebido' (id i2)
\* was rendered with the hash in its MEMO.
C14_Witness ==
    /\ detailed
    /\ trn # <<>>
    /\ item.id = "i2"
    /\ trn.MEMO = "#Sb - Pagamento recebido"
    /\ trn.FITID = "i2"

\* ------------------------------------------------------- stage properties
\* The stage of main(): 0 before the fetch resolves, then one more per
\* completed step.
Stage ==
    CASE pc \in {"idle", "fetching"} -> 0
      [] pc = "fetched" -> 1
      [] pc = "normalized" -> 2
      [] pc = "filtered" -> 3
      [] pc = "rendered" -> 4
      [] pc = "written" -> 5
      [] OTHER -> 6

\* writeToFile has been called (it resolved, or it rejected).
WriteCalled == pc = "written" \/ error = "write"

\* The complete output of the fetched bills under the options of the run.
CompleteOutput ==
    LET cs == FilterCharges(ReduceBills(bills, timezoneOffset, <<>>), dateFilter)
    IN IF json THEN stringifyCharges(cs) ELSE generateOfx(cs)

\* C15: the stages follow one another in the order Idle, Fetched,
\* Normalized, Filtered, Rendered, Written, one step at a time and never
\* back (a run may also end in an error exit); writeToFile is called only
\* with the complete output; and when normalization throws, writeToFile is
\* never called and no file exists.
C15_StageOrder ==
    /\ [][pc' # pc =>
            /\ pc # "exit" /\ pc # "written"
            /\ \/ pc' = "exit"
               \/ Stage' = Stage + 1
               \/ pc = "idle" /\ pc' = "fetching"]_vars
    /\ [](WriteCalled => output = CompleteOutput)
    /\ [](file # NoOutput => (pc = "written" /\ file = CompleteOutput))
    /\ [](error = "normalize" =>
            (~WriteCalled /\ file = NoOutput /\ output = NoOutput /\ pc = "exit"))

\* A run went through every stage and wrote two charges.
C15_Witness ==
    /\ pc = "written"
    /\ Len(bills) = 2
    /\ file = output /\ Len(file.body) = 2

\* Normalization threw on a bill without line_items that followed a bill
\* with two line items; nothing was written.
C15_WitnessThrow ==
    /\ error = "normalize"
    /\ Len(bills) = 2 /\ hasLineItems(bills[1]) /\ Len(bills[1].line_items) = 2
    /\ file = NoOutput

\* Nothing of normalization, filtering, rendering or writing exists.
NothingProduced ==
    /\ bills = <<>>
    /\ charges = <<>>
    /\ output = NoOutput
    /\ file = NoOutput

\* C16: when the fetch fails, none of boundary parsing, normalization,
\* filtering and rendering has run, no file is written and the exit code is
\* not 0; a successful run exits with 0.
C16_FetchFailureBeforeCore ==
    /\ error = "fetch" =>
          /\ ~Created
          /\ NothingProduced
          /\ pc = "exit" /\ exitCode > 0
    /\ pc = "written" => exitCode = 0

\* C16 as the code has it: the boundaries are parsed before the fetch, so a
\* failed fetch finds the date filter already created; the failure happens
\* at stage 0, before normalization, filtering and rendering, no file is
\* written and the exit code is 1.  The exit code is 0 exactly for a run that
\* wrote its file.
C16_FetchFailureAmended ==
    /\ [][(error' = "fetch" /\ error # "fetch") =>
              (pc = "fetching" /\ Created /\ NothingProduced)]_vars
    /\ [](error = "fetch" =>
              (Created /\ NothingProduced /\ pc = "exit" /\ exitCode = 1))
    /\ []((exitCode = 0) <=> (pc = "written"))

\* The fetch failed in a run whose boundaries 'open' and 'now' had been
\* parsed.
C16_Witness ==
    /\ error = "fetch"
    /\ since = "open" /\ until = "now"
    /\ dateFilter.upper.kind = "date"
    /\ exitCode = 1

\* C17: rendering no charges gives, without error, a complete OFX document:
\* the fixed header, the sign-on block and one credit-card statement whose
\* BANKTRANLIST holds no STMTTRN block.
C17_EmptyDocument ==
    (pc \in {"rendered", "written"} /\ ~json /\ charges = <<>>) =>
        /\ error = ""
        /\ output.format = "ofx"
        /\ output.header[1] = "OFXHEADER:100"
        /\ output.header[2] = "DATA:OFXSGML"
        /\ output.header[3] = "VERSION:102"
        /\ Len(output.header) = 9
        /\ output.signon.CODE = "0" /\ output.signon.SEVERITY = "INFO"
        /\ output.signon.LANGUAGE = "POR"
        /\ Len(output.statements) = 1
        /\ output.statements[1].ACCTID = "nubank-ofx-preview"
        /\ output.body = <<>>

\* Two bills with line items were fetched, the filter rejected every charge
\* and the empty document was written.
C17_Witness ==
    /\ pc = "written" /\ ~json
    /\ Len(bills) = 2 /\ Cardinality(Positions) >= 2
    /\ charges = <<>>
    /\ file.format = "ofx" /\ file.body = <<>>

\* C19: parsing the JSON rendering of the exported charges gives back a
\* sequence of the same length and order in which every charge has the id,
\* the title and the two-decimal amount of the charge, the amount with the
\* sign of the raw amount (not negated).
C19_JsonRoundTrip ==
    (pc \in {"rendered", "written"} /\ json) =>
        LET back == JsonParseArray(output.body)
        IN /\ Len(back) = Len(charges)
           /\ \A k \in 1 .. Len(charges) :
                 /\ back[k].id = charges[k].id
                 /\ back[k].title = charges[k].title
                 /\ back[k].amount = charges[k].amount
                 /\ TwoDecimals(back[k].amount)
                 /\ back[k].id = "i1" => back[k].amount = <<"1", "2", "3", ".", "4", "5">>
                 /\ back[k].id = "i2" => back[k].amount = <<"-", "5", "0", ".", "0", "0">>
                 /\ back[k].date.timezoneOffset = timezoneOffset

\* The JSON form of a purchase followed by a payment was rendered, in a run
\* with a negative timezone offset.
C19_Witness ==
    /\ pc = "rendered" /\ json
    /\ output.format = "json"
    /\ timezoneOffset < 0
    /\ Len(output.body) = 2
    /\ charges[1].id = "i1" /\ charges[2].id = "i2"

\* ------------------------------------------------------- global state
\* C20: createDateFilter, with the parseDate calls it makes, leaves the
\* date library's deprecation-warning flag with the value it had before the
\* call, for either initial value of the flag.
C20_FlagRestored ==
    [][dateFilter' # dateFilter =>
          suppressDeprecationWarnings' = suppressDeprecationWarnings]_vars

\* ------------------------------------------------------- filter purity
\* C21: the filter is a pure function of (date, billState): every call
\* returns what the boundaries resolved at creation give for its arguments,
\* however far the clock has advanced since, and a call with the arguments
\* of the previous call returns the result of the previous call.
C21_FilterPure ==
    /\ [](probe.called =>
            probe.r = ApplyFilter(createDateFilter(since, until, createdAt),
                                  probe.dt, probe.billState))
    /\ [][(probe.called /\ probe'.called /\ probe'.dt = probe.dt
              /\ probe'.billState = probe.billState) => probe'.r = probe.r]_vars

\* A filter created with until = 'now' was called after the clock had
\* moved on, on a date that lies between the creation and the call.
C21_Witness ==
    /\ until = "now" /\ since = "forever"
    /\ clock > createdAt
    /\ probe.called /\ IsDay(probe.dt)
    /\ DayOf(probe.dt) * DayLen >= createdAt
    /\ DayOf(probe.dt) * DayLen < clock
    /\ ~probe.r

\* ------------------------------------------------------- wait properties
\* C22: with requests = 0 the wait resolves only when every request whose
\* 'request' event it observed has finished or failed, also when requests
\* that began before the call finish during the wait.
C22_IdleMeansNoneInFlight ==
    (requests = 0 /\ promise = "resolved") => observed = 0

\* C26: inFlight is never negative; with requests = 0 and the promise
\* pending, the quiet-period timer is armed exactly when inFlight = 0, and
\* at most one quiet-period timer is armed.
C26_CounterAndTimer ==
    /\ inFlight >= 0
    /\ (requests = 0 /\ promise = "pending") =>
          /\ timeoutId <=> (inFlight = 0)
          /\ staleTimers = 0

\* With requests = 0 the timer is armed again after two requests came and
\* went.
C26_Witness ==
    /\ requests = 0 /\ promise = "pending"
    /\ started >= 2 /\ observed = 0 /\ unobserved = 0
    /\ inFlight = 0 /\ timeoutId

C23_NoBillLost ==
    returned.done =>
        /\ bills = returned.value
        /\ \A i \in 1 .. Len(responses) :
              (responses[i].early /\ responses[i].body.kind = "bill") =>
                  \E k \in 1 .. Len(returned.value) :
                      returned.value[k] = responses[i].body.bill

\* The responses to the password-grant POST with parseable JSON that arrived
\* before the wait resolved, by position.
Answers ==
    {i \in 1 .. Len(responses) :
        /\ responses[i].early
        /\ responses[i].body.kind = "grant"
        /\ responses[i].body.data # "unparseable"}

\* C24: login returns the server's JSON whenever an answer to the
\* password-grant POST with parseable JSON arrived before the wait resolved,
\* that of the last one to arrive when there are several, and the synthetic
\* error exactly when none arrived.
C24_LoginResult ==
    returned.done =>
        /\ (Answers = {}) <=> (returned.value = PleaseVerify)
        /\ \A i \in Answers :
              (\A j \in Answers : j =< i) => returned.value = responses[i].body.data

\* C27: once the promise of waitForBillData is settled (resolved by a bill
\* in state 'open', or rejected by a page error), neither its 'response' nor
\* its 'error' listener is registered on the page.
C27_Unsubscribed ==
    promise \in {"resolved", "rejected"} => (~responseListener /\ ~errorListener)


\* C28: on every path out of fetchBillsAndTimezoneOffset after the launch
\* (a result, a login error, an exception in login, fetchBills or the
\* timezone read) browser.close() has been called exactly once and the
\* browser is closed before the result or the error reaches main, so that
\* nothing of main's pipeline exists while the browser is open.
C28_ClosedBeforeMain ==
    /\ closeCalls =< 1
    /\ (browser # "none" /\ pc \in {"fetched", "normalized", "filtered", "rendered", "written", "exit"})
          => (browser = "closed" /\ closeCalls = 1)
    /\ browser = "open"
          => (bills = <<>> /\ charges = <<>> /\ output = NoOutput /\ file = NoOutput /\ exitCode = -1)

\* A failed login has reached main as an exit with 1, the browser closed.
C28_Witness ==
    /\ pc = "exit"
    /\ outcome = [kind |-> "error", at |-> "login"]
    /\ browser = "closed"
    /\ closeCalls = 1

\* A fetched statement has been written, the browser closed beforehand.
C28_WitnessWritten ==
    /\ pc = "written"
    /\ Len(bills) = MaxBills
    /\ browser = "closed"
    /\ closeCalls = 1


\* C29: normalization yields, for every line item of every fetched bill, a
\* charge with the item's id and title, a date made of the item's post_date
\* and the session's timezone offset, and the state of the bill that holds
\* the item, never another bill's; the step leaves the fetched bills, their
\* line items and the timezone offset as they were.
C29_ChargeOfItsBill ==
    /\ [](pc = "normalized" =>
            /\ Len(charges) = Cardinality(Positions)
            /\ \A p \in Positions :
                  LET c == charges[Rank(Positions, p)] IN
                  /\ c.id = ItemAt(p).id
                  /\ c.title = ItemAt(p).title
                  /\ c.date = [date |-> ItemAt(p).post_date, timezoneOffset |-> timezoneOffset]
                  /\ c.billState = StateAt(p))
    /\ [][Normalize => (bills' = bills /\ timezoneOffset' = timezoneOffset)]_vars

\* Two bills of different states, each with a line item, were normalized.
C29_Witness ==
    /\ pc = "normalized"
    /\ Len(bills) = 2
    /\ bills[1].state # bills[2].state
    /\ \A b \in 1 .. 2 : Len(bills[b].line_items) >= 1
    /\ Len(charges) >= 2


\* The line item has a number as its amount.
HasNumber(it) == AmountOf(it).type = "number"

====
